---- MODULE Spec2Model ----
(***************************************************************************)
(* A model of nb-logger (src/logger.go): the leveled logger BasicLogger    *)
(* with its bounded delivery channel, its single worker goroutine          *)
(* (server), the mutex taken by logging(), and Close().                    *)
(*                                                                         *)
(* One logger instance is modelled.  Caller threads issue logging calls,   *)
(* SetLogLevel calls and Close calls; every blocking point of the code     *)
(* (mutex Lock, channel send, channel receive, WaitGroup.Wait, the sink    *)
(* Write) is the start of its own action, and the straight-line code       *)
(* between two blocking points is part of one action.                      *)
(***************************************************************************)
EXTENDS Integers, Sequences, FiniteSets

\* ---- bounds of the model ------------------------------------------------
NThreads == 2      \* caller threads
MaxOps   == 3      \* calls (logging, SetLogLevel, Close) over the whole run
MaxCap   == 2      \* bufferSize ranges over 0..MaxCap
MaxFail  == 1      \* sink writes that return an error over the whole run

\* ---- program constants --------------------------------------------------
Trace == 0
Debug == 1
Info  == 2
Warn  == 3
Error == 4

write == 0
exit  == 1

Levels  == {Trace, Debug, Info, Warn, Error}

\* The thresholds a logger is constructed with; SetLogLevel sets any level.
InitLevels == {Info, Warn}
Threads == 1..NThreads
Worker  == 0           \* the identity of the server goroutine in the sink log
NoOne   == -1          \* the mutex is free

VARIABLES
  level,       \* BasicLogger.level
  flags,       \* BasicLogger.flags: [blocking, file] (Lblocking, Lshortfile|Llongfile)
  bufferSize,  \* capacity of BasicLogger.ch
  ch,          \* BasicLogger.ch: the buffered messages, oldest first
  lock,        \* BasicLogger.lock: the thread holding it, or NoOne
  wg,          \* BasicLogger.wg: the WaitGroup counter
  server,      \* the worker goroutine: "none", "recv", "write", "done"
  wmsg,        \* the message the worker holds while it writes
  sink,        \* BasicLogger.writer: the log of Write calls, begin and end
  pc,          \* per thread: where it is in logging() or Close()
  now,         \* per thread: time.Now() was captured by the call in progress
  file,        \* per thread: runtime.Caller() was captured by the call in progress
  n,           \* per thread: number of logging calls issued
  en,          \* per thread: number of those that passed the level gate
  ops,         \* number of calls issued by all threads
  first,       \* the first Close() call: who, what was enqueued before it,
               \* returned, and whether more Close() calls followed it
  closed,      \* some Close() call has returned
  placed,      \* every command sent on BasicLogger.ch so far, in send order
  arg,         \* the arguments of the call under study
  res          \* what that call returned and created

vars == <<level, flags, bufferSize, ch, lock, wg, server, wmsg, sink,
          pc, now, file, n, en, ops, first, closed, placed, arg, res>>

\* ---- messages and sink events -------------------------------------------
\* The formatted line of call number k of thread t.
Line(t, k) == <<t, k>>

logMessage(c, b) == [cmd |-> c, buf |-> b]

NoMsg == logMessage(exit, <<>>)

\* A finished Write call on the sink: who called it, with what, and whether
\* it returned without an error.  A Write in progress is the writer's position.
Written(by, b, ok) == [by |-> by, buf |-> b, ok |-> ok]

IsFail(e) == ~e.ok

\* Number of Write calls that returned an error so far.
NFails == Cardinality({i \in 1..Len(sink) : IsFail(sink[i])})

\* ---- construction (NewLogger) -------------------------------------------
\* The worker is started, and the WaitGroup counted up, only without Lblocking.
\* A constructor that starts the worker whatever the flags.
StartsWorkerAlways(fl) == TRUE

StartsWorker(fl) == ~fl.blocking

\* The struct literal of NewLogger and what follows it: the channel is made
\* with the given capacity, the worker started unless Lblocking is set.
BasicLogger(lv, size, fl) ==
  [level |-> lv, flags |-> fl, bufferSize |-> size, ch |-> <<>>,
   lock |-> NoOne,
   wg |-> IF StartsWorker(fl) THEN 1 ELSE 0,
   server |-> IF StartsWorker(fl) THEN "recv" ELSE "none"]

\* The state NewLogger leaves behind when the file was opened.
NewLogger(lv, size, fl) ==
  LET b == BasicLogger(lv, size, fl) IN
  /\ level = b.level
  /\ flags = b.flags
  /\ bufferSize = b.bufferSize
  /\ ch = b.ch
  /\ lock = b.lock
  /\ wg = b.wg
  /\ server = b.server

\* No call is under study: the logger exists and is in use.
NoCall == [op |-> "none"]

Init ==
  /\ \E lv \in InitLevels, size \in 0..MaxCap, b \in BOOLEAN, f \in BOOLEAN :
        NewLogger(lv, size, [blocking |-> b, file |-> f])
  /\ wmsg = NoMsg
  /\ sink = <<>>
  /\ pc = [t \in Threads |-> "idle"]
  /\ now = [t \in Threads |-> FALSE]
  /\ file = [t \in Threads |-> FALSE]
  /\ n = [t \in Threads |-> 0]
  /\ en = [t \in Threads |-> 0]
  /\ closed = FALSE
  /\ ops = 0
  /\ first = [who |-> NoOne, snap |-> {}, ret |-> FALSE, more |-> FALSE]
  /\ placed = <<>>
  /\ arg = NoCall
  /\ res = NoCall

\* ---- the channel --------------------------------------------------------
\* A send completes when the buffer has room or, on an unbuffered channel,
\* when the receiver is waiting in <-logger.ch.
\* A send that never waits for room.
CanSendAlways == TRUE

CanSend ==
  \/ Len(ch) < bufferSize
  \/ bufferSize = 0 /\ server = "recv"

\* A buffer that hands out the newest message first.
ChanPutLIFO(q, m) == <<m>> \o q

\* The buffer is first in, first out.
ChanPut(q, m) == Append(q, m)

\* What the worker does with a message once received.
\* A worker that goes back to receiving after the terminate command.
AfterExitRecv == "recv"

AfterExit == "done"

\* A worker that exits without counting down the WaitGroup.
DeliverNoDone(m) ==
  IF m.cmd = write
  THEN /\ server' = "write"
       /\ wmsg' = m
       /\ wg' = wg
  ELSE /\ server' = AfterExit
       /\ wmsg' = NoMsg
       /\ wg' = wg

Deliver(m) ==
  IF m.cmd = write
  THEN /\ server' = "write"
       /\ wmsg' = m
       /\ wg' = wg
  ELSE /\ server' = AfterExit
       /\ wmsg' = NoMsg
       /\ wg' = wg - 1

\* logger.ch <- m, by a caller thread: straight to the waiting receiver on an
\* unbuffered channel, into the buffer otherwise.
ChanSend(m) ==
  /\ CanSend
  /\ placed' = Append(placed, m)
  /\ IF bufferSize = 0 /\ server = "recv"
     THEN /\ ch' = ch
          /\ Deliver(m)
     ELSE /\ ch' = ChanPut(ch, m)
          /\ UNCHANGED <<server, wmsg, wg>>

\* ---- the worker (server) ------------------------------------------------
ServerRecv ==
  /\ server = "recv"
  /\ ch # <<>>
  /\ ch' = Tail(ch)
  /\ Deliver(Head(ch))
  /\ UNCHANGED <<level, flags, bufferSize, lock, sink, pc, now, file, n, ops,
                 first, en, closed,
                 placed, arg, res>>

\* A worker that gives up on the first Write error.
AfterWriteStop(ok) == IF ok THEN "recv" ELSE "done"

\* The error of Write is dropped: the loop goes on either way.
AfterWrite(ok) == "recv"

ServerWrite(ok) ==
  /\ server = "write"
  /\ ok \/ NFails < MaxFail
  /\ sink' = Append(sink, Written(Worker, wmsg.buf, ok))
  /\ server' = AfterWrite(ok)
  /\ wmsg' = NoMsg
  /\ UNCHANGED <<level, flags, bufferSize, ch, lock, wg, pc, now, file, n,
                 ops, first, en, closed,
                 placed, arg, res>>

\* ---- logging() ----------------------------------------------------------
\* The level gate: the call goes on unless the threshold is above its level.
\* A gate that also rejects the calls at the threshold itself.
shouldLogStrict(threshold, l) == l > threshold

shouldLog(threshold, l) == ~(threshold > l)

\* A Lock that does not wait for the holder.
LockFreeAlways == TRUE

LockFree == lock = NoOne

\* Where the line goes: the channel, or the sink directly under Lblocking.
UsesChannel == ~flags.blocking

\* Entry of logging(): the gate, then time.Now().
Logging(t, l) ==
  /\ pc[t] = "idle"
  /\ ops < MaxOps
  /\ ops' = ops + 1
  /\ n' = [n EXCEPT ![t] = @ + 1]
  /\ IF shouldLog(level, l)
     THEN /\ pc' = [pc EXCEPT ![t] = "lock"]
          /\ now' = [now EXCEPT ![t] = TRUE]
          /\ en' = [en EXCEPT ![t] = @ + 1]
     ELSE UNCHANGED <<pc, now, en>>
  /\ UNCHANGED <<level, flags, bufferSize, ch, lock, wg, server, wmsg, sink,
                 file, first, closed,
                 placed, arg, res>>

\* logger.lock.Lock(); with a call-site flag the mutex is released at once,
\* runtime.Caller is read, and the mutex is to be taken again.
Lock(t) ==
  /\ pc[t] = "lock"
  /\ LockFree
  /\ IF flags.file
     THEN /\ lock' = NoOne
          /\ file' = [file EXCEPT ![t] = TRUE]
          /\ pc' = [pc EXCEPT ![t] = "relock"]
     ELSE /\ lock' = t
          /\ file' = file
          /\ pc' = [pc EXCEPT ![t] = "emit"]
  /\ UNCHANGED <<level, flags, bufferSize, ch, wg, server, wmsg, sink, now,
                 n, ops, first, en, closed,
                 placed, arg, res>>

Relock(t) ==
  /\ pc[t] = "relock"
  /\ LockFree
  /\ lock' = t
  /\ pc' = [pc EXCEPT ![t] = "emit"]
  /\ UNCHANGED <<level, flags, bufferSize, ch, wg, server, wmsg, sink, now,
                 file, n, ops, first, en, closed,
                 placed, arg, res>>

\* A return that leaves the mutex with the caller.
ReturnLocked(t) ==
  /\ lock' = lock
  /\ pc' = [pc EXCEPT ![t] = "idle"]
  /\ now' = [now EXCEPT ![t] = FALSE]
  /\ file' = [file EXCEPT ![t] = FALSE]

\* The return of logging(): the deferred Unlock.
Return(t) ==
  /\ lock' = NoOne
  /\ pc' = [pc EXCEPT ![t] = "idle"]
  /\ now' = [now EXCEPT ![t] = FALSE]
  /\ file' = [file EXCEPT ![t] = FALSE]

\* Asynchronous mode: the formatted line is sent on the channel, mutex held.
Send(t) ==
  /\ pc[t] = "emit"
  /\ UsesChannel
  /\ ChanSend(logMessage(write, Line(t, n[t])))
  /\ Return(t)
  /\ UNCHANGED <<level, flags, bufferSize, sink, n, ops, first, en, closed,
                 arg, res>>

\* Synchronous mode: the caller writes the line itself, mutex held.
WriteBegin(t) ==
  /\ pc[t] = "emit"
  /\ ~UsesChannel
  /\ pc' = [pc EXCEPT ![t] = "write"]
  /\ UNCHANGED <<level, flags, bufferSize, ch, lock, wg, server, wmsg, sink,
                 now, file, n, ops, first, en, closed,
                 placed, arg, res>>

WriteEnd(t, ok) ==
  /\ pc[t] = "write"
  /\ ok \/ NFails < MaxFail
  /\ sink' = Append(sink, Written(t, Line(t, n[t]), ok))
  /\ Return(t)
  /\ UNCHANGED <<level, flags, bufferSize, ch, wg, server, wmsg, n, ops,
                 first, en, closed,
                 placed, arg, res>>

\* ---- SetLogLevel --------------------------------------------------------
SetLogLevel(t, l) ==
  /\ pc[t] = "idle"
  /\ ops < MaxOps
  /\ ops' = ops + 1
  /\ level' = l
  /\ UNCHANGED <<flags, bufferSize, ch, lock, wg, server, wmsg, sink, pc,
                 now, file, n, first, en, closed,
                 placed, arg, res>>

\* ---- Close() ------------------------------------------------------------
\* The lines handed over so far: on the channel, or given to Write.
Enqueued ==
  {ch[i].buf : i \in {j \in 1..Len(ch) : ch[j].cmd = write}}
    \cup (IF server = "write" THEN {wmsg.buf} ELSE {})
    \cup {sink[i].buf : i \in 1..Len(sink)}

CloseCall(t) ==
  /\ pc[t] = "idle"
  /\ ops < MaxOps
  /\ ops' = ops + 1
  /\ pc' = [pc EXCEPT ![t] = "csend"]
  /\ first' = IF first.who = NoOne
              THEN [who |-> t, snap |-> Enqueued, ret |-> FALSE,
                    more |-> FALSE]
              ELSE [first EXCEPT !.more = TRUE]
  /\ UNCHANGED <<level, flags, bufferSize, ch, lock, wg, server, wmsg, sink,
                 now, file, n, en, closed,
                 placed, arg, res>>

\* logger.ch <- logMessage{cmd: exit}
CloseSend(t) ==
  /\ pc[t] = "csend"
  /\ ChanSend(logMessage(exit, <<>>))
  /\ pc' = [pc EXCEPT ![t] = "cwait"]
  /\ UNCHANGED <<level, flags, bufferSize, lock, sink, now, file, n, ops,
                 first, en, closed,
                 arg, res>>

\* A Wait that returns at once.
WgNoWait == TRUE

\* A Wait that returns as soon as the terminate command has been sent.
WgSent == wg = 0 \/ server # "done"

\* logger.wg.Wait() returns once the counter is zero.
WgZero == wg = 0

CloseWait(t) ==
  /\ pc[t] = "cwait"
  /\ WgZero
  /\ pc' = [pc EXCEPT ![t] = "idle"]
  /\ first' = IF first.who = t THEN [first EXCEPT !.ret = TRUE] ELSE first
  /\ closed' = TRUE
  /\ UNCHANGED <<level, flags, bufferSize, ch, lock, wg, server, wmsg, sink,
                 now, file, n, ops, en,
                 placed, arg, res>>

\* ---- the specification --------------------------------------------------
Next ==
  \/ ServerRecv
  \/ \E ok \in BOOLEAN : ServerWrite(ok)
  \/ \E t \in Threads, l \in Levels : Logging(t, l)
  \/ \E t \in Threads : Lock(t)
  \/ \E t \in Threads : Relock(t)
  \/ \E t \in Threads : Send(t)
  \/ \E t \in Threads : WriteBegin(t)
  \/ \E t \in Threads, ok \in BOOLEAN : WriteEnd(t, ok)
  \/ \E t \in Threads, l \in Levels : SetLogLevel(t, l)
  \/ \E t \in Threads : CloseCall(t)
  \/ \E t \in Threads : CloseSend(t)
  \/ \E t \in Threads : CloseWait(t)

Spec == Init /\ [][Next]_vars

\* ---- helpers of the properties ------------------------------------------
\* The lines whose Write call has finished.
Done == {sink[i].buf : i \in 1..Len(sink)}

Async == ~flags.blocking

InWrite == {t \in Threads : pc[t] = "write"}

\* ---- C1 -----------------------------------------------------------------
\* C1 (flush on close): on an asynchronous logger, once the first Close()
\* call has returned, every line that was enqueued before that call has been
\* handed to the sink's Write by the worker and that Write has finished.
FlushOnClose ==
  (Async /\ first.ret) => first.snap \subseteq Done

\* The first Close() has returned, and lines of two threads were enqueued
\* before it was called.
FlushOnCloseWitness ==
  /\ Async
  /\ first.ret
  /\ \A t \in Threads : \E b \in first.snap : b[1] = t

\* ---- C2 -----------------------------------------------------------------
\* C2 (FIFO per producer): on an asynchronous logger, two lines of the same
\* thread are in the sink in the order in which the thread issued the calls.
FIFOPerProducer ==
  Async =>
    \A i, j \in 1..Len(sink) :
      (i < j /\ sink[i].buf[1] = sink[j].buf[1]) => sink[i].buf[2] < sink[j].buf[2]

\* With a call-site flag set, two lines of one thread are in the sink with a
\* line of another thread between them.
FIFOPerProducerWitness ==
  /\ Async
  /\ flags.file
  /\ \E i, j, k \in 1..Len(sink) :
        /\ i < j /\ j < k
        /\ sink[i].buf[1] = sink[k].buf[1]
        /\ sink[j].buf[1] # sink[i].buf[1]

\* ---- C3 -----------------------------------------------------------------
\* C3 (no silent drop): on an asynchronous logger, every line a logging call
\* has put on the channel is written by the worker.  The worker writes
\* nothing once it has exited, so when it has exited, and while no Close()
\* call has returned yet, every enqueued line must have been written.
NoSilentDrop ==
  (Async /\ server = "done" /\ ~closed) => Enqueued \subseteq Done

\* ---- C4 -----------------------------------------------------------------
\* C4 (backpressure bound): the channel never holds more than bufferSize
\* commands; a logging call that returns has left its line on the channel or
\* with the worker, and if it found the channel full, the worker received a
\* command in the very step in which the call's send completed.
BackpressureStep ==
  \A t \in Threads :
    (Async /\ pc[t] = "emit" /\ pc'[t] # "emit") =>
      /\ Line(t, n[t]) \in Enqueued'
      /\ Len(ch) >= bufferSize => (server = "recv" /\ server' # "recv")

BackpressureBound ==
  [](Len(ch) <= bufferSize) /\ [][BackpressureStep]_vars

\* A producer is blocked in its send: the buffer is full and the worker busy.
BackpressureBoundWitness ==
  /\ Async
  /\ bufferSize >= 1
  /\ Len(ch) = bufferSize
  /\ server = "write"
  /\ \E t \in Threads : pc[t] = "emit"

\* ---- C5 -----------------------------------------------------------------
\* The lines of thread t that were handed over: one per call that passed the
\* gate, but for the call still on its way to the channel or the sink.
InFlight(t) == IF pc[t] \in {"lock", "relock", "emit", "write"} THEN 1 ELSE 0

GateProduces ==
  \A t \in Threads :
    Cardinality({b \in Enqueued : b[1] = t}) = en[t] - InFlight(t)

\* The entry of a logging call at level l: at or above the threshold it reads,
\* the call goes on to capture the time and take the mutex; below it, the
\* call returns having captured nothing, locked nothing and produced nothing.
LevelGateStep ==
  \A t \in Threads, l \in Levels :
    Logging(t, l) =>
      IF l >= level
      THEN pc'[t] = "lock" /\ now'[t] /\ en'[t] = en[t] + 1
      ELSE /\ pc'[t] = "idle"
           /\ ~now'[t] /\ ~file'[t]
           /\ UNCHANGED <<lock, ch, sink, server, wmsg, en>>

\* C5 (level gate): a call produces a line if and only if its level is at or
\* above the threshold it reads; a call below it does nothing at all.
LevelGate == []GateProduces /\ [][LevelGateStep]_vars

\* Threshold Warn, one thread issued two calls and nothing else happened: the
\* first was rejected, the second is the only line of the sink.
LevelGateWitness ==
  /\ level = Warn
  /\ ops = 2
  /\ \E t \in Threads :
        /\ n[t] = 2 /\ en[t] = 1 /\ pc[t] = "idle"
        /\ Len(sink) = 1 /\ sink[1].buf = Line(t, 2) /\ sink[1].ok

\* ---- C6 -----------------------------------------------------------------
\* C6 (synchronous mode): a caller is inside the sink's Write only while it
\* holds the mutex, so no two Writes overlap; every line is written by its own
\* caller, once, and a thread that is back from its calls has one finished
\* Write in the sink for each call that passed the gate.
SyncMutualExclusion ==
  flags.blocking =>
    /\ Cardinality(InWrite) <= 1
    /\ \A t \in InWrite : lock = t
    /\ \A i \in 1..Len(sink) : sink[i].by = sink[i].buf[1]
    /\ \A i, j \in 1..Len(sink) : i # j => sink[i].buf # sink[j].buf
    /\ \A t \in Threads :
          Cardinality({b \in Done : b[1] = t}) = en[t] - InFlight(t)

\* Every thread is back from its enabled calls, one thread from two of them,
\* and a line of another thread was written between these two.
SyncMutualExclusionWitness ==
  /\ flags.blocking
  /\ flags.file
  /\ \A t \in Threads : pc[t] = "idle" /\ en[t] >= 1
  /\ Len(sink) = MaxOps
  /\ sink[1].by = sink[3].by
  /\ sink[1].by # sink[2].by

\* ---- C7 -----------------------------------------------------------------
\* C7 (single writer): an asynchronous logger has its one worker from
\* construction on and only the worker writes; a synchronous logger has no
\* worker; at no time are two threads inside the sink's Write.
SingleWriter ==
  /\ Async =>
        /\ server \in {"recv", "write", "done"}
        /\ InWrite = {}
        /\ \A i \in 1..Len(sink) : sink[i].by = Worker
  /\ ~Async =>
        /\ server = "none"
        /\ \A i \in 1..Len(sink) : sink[i].by \in Threads
  /\ Cardinality(InWrite) + (IF server = "write" THEN 1 ELSE 0) <= 1

\* The worker is writing a line of one thread after a line of another, while
\* a caller holds the mutex and waits to send.
SingleWriterWitness ==
  /\ Async
  /\ server = "write"
  /\ Len(sink) >= 1
  /\ sink[1].buf[1] # wmsg.buf[1]
  /\ \E t \in Threads : pc[t] = "emit"

\* ---- C8 -----------------------------------------------------------------
\* C8 (Close on a synchronous logger is a no-op): it leaves no command on
\* the channel and it is never stuck in its send.
SyncCloseNoOp ==
  flags.blocking =>
    /\ ch = <<>>
    /\ \A t \in Threads : pc[t] = "csend" => CanSend

\* ---- C9 -----------------------------------------------------------------
\* C9 (Close on an asynchronous logger): when a Close() call has returned the
\* worker has exited, and from then on the sink is never written again.
ClosedStep ==
  (Async /\ closed') => (server' = "done" /\ (closed => sink' = sink))

CloseThenQuiet == [][ClosedStep]_vars

\* After a Close() has returned, a logging call has put a line on the channel.
CloseThenQuietWitness ==
  /\ Async
  /\ closed
  /\ \E i \in 1..Len(ch) : ch[i].cmd = write /\ ch[i].buf \notin first.snap

\* ---- C10 ----------------------------------------------------------------
\* No line is given to Write twice.
NoRetry ==
  \A i, j \in 1..Len(sink) : i # j => sink[i].buf # sink[j].buf

\* The worker has exited only if a Close() was called.
StopOnlyOnExit == (Async /\ server = "done") => first.who # NoOne

\* The step in which a Write returns an error: the worker goes back to
\* receiving, the synchronous caller returns with the mutex released, and the
\* line is not put back on the channel.
WriteErrorStep ==
  NFails' > NFails =>
    /\ ch' = ch
    /\ IF Async
       THEN server = "write" /\ server' = "recv"
       ELSE \E t \in Threads : pc[t] = "write" /\ pc'[t] = "idle" /\ lock' = NoOne

\* C10 (write errors are absorbed): a failed Write is not retried, the call
\* returns, and the writer goes on with the later lines.
WriteErrorsAbsorbed == [](NoRetry /\ StopOnlyOnExit) /\ [][WriteErrorStep]_vars

\* The worker's Write of one line failed and its Write of a later line succeeded.
WriteErrorsAbsorbedWitness ==
  /\ Async
  /\ \E i, j \in 1..Len(sink) : i < j /\ ~sink[i].ok /\ sink[j].ok

\* ==== the calls studied on their own: NewLogger, itoa, formatHeader =======
\* ---- bounds of their inputs ---------------------------------------------
MaxI   == 1100        \* itoa is applied to 0..MaxI
MaxWid == 4           \* and to the widths -1..MaxWid
MaxLen == 3           \* rendered messages have up to MaxLen bytes

\* ---- bytes ---------------------------------------------------------------
NL == "\n"
Digits == <<"0", "1", "2", "3", "4", "5", "6", "7", "8", "9">>

\* byte('0' + d)
Digit(d) == Digits[d + 1]

IsDigit(c) == \E d \in 0..9 : c = Digit(d)

\* The number a sequence of digit bytes reads as.
RECURSIVE Value(_)
Value(b) ==
  IF b = <<>> THEN 0
  ELSE 10 * Value(SubSeq(b, 1, Len(b) - 1))
         + (CHOOSE d \in 0..9 : b[Len(b)] = Digit(d))

RECURSIVE Pow10(_)
Pow10(k) == IF k <= 0 THEN 1 ELSE 10 * Pow10(k - 1)

\* ---- itoa ----------------------------------------------------------------
\* The loop of itoa: b holds the digits assembled so far, lowest last.
RECURSIVE itoaLoop(_, _, _)
itoaLoop(b, i, wid) ==
  IF i >= 10 \/ wid > 1
  THEN LET q == i \div 10
       IN itoaLoop(<<Digit(i - q * 10)>> \o b, q, wid - 1)
  ELSE <<Digit(i)>> \o b

\* An itoa that never pads.
itoaNoPad(i, wid) == itoaLoop(<<>>, i, -1)

\* The bytes itoa appends to buf for i >= 0.
itoa(i, wid) == itoaLoop(<<>>, i, wid)

\* ---- formatHeader --------------------------------------------------------
Ldate == "Ldate"
Ltime == "Ltime"
Lmicroseconds == "Lmicroseconds"
Llongfile == "Llongfile"
Lshortfile == "Lshortfile"
LUTC == "LUTC"
HeaderFlags == {Ldate, Ltime, Lmicroseconds, Llongfile, Lshortfile, LUTC}

\* flags&mask != 0
Has(fl, mask) == fl \cap mask # {}

levelStringMap ==
  [l \in Levels |->
     CASE l = Trace -> <<"[", "T", "R", "A", "C", "E", "]", " ">>
       [] l = Debug -> <<"[", "D", "E", "B", "U", "G", "]", " ">>
       [] l = Info  -> <<"[", "I", "N", "F", "O", "]", " ", " ">>
       [] l = Warn  -> <<"[", "W", "A", "R", "N", "]", " ", " ">>
       [] l = Error -> <<"[", "E", "R", "R", "O", "R", "]", " ">>]

\* The index of the last '/' of file at an index above the first, or 0.
LastSlash(f) ==
  LET S == {i \in 2..Len(f) : f[i] = "/"}
  IN IF S = {} THEN 0 ELSE CHOOSE i \in S : \A j \in S : j <= i

\* The Lshortfile loop: the part after the last '/', the first byte spared.
Short(f) ==
  IF LastSlash(f) = 0 THEN f ELSE SubSeq(f, LastSlash(f) + 1, Len(f))

DateField(t) ==
  itoa(t.year, 4) \o <<"/">> \o itoa(t.month, 2) \o <<"/">>
    \o itoa(t.day, 2) \o <<" ">>

\* A header whose clock field depends on the time flag alone.
EmitsClockTimeOnly(fl) == Has(fl, {Ltime})

\* if logger.flags&(Ltime|Lmicroseconds) != 0
EmitsClock(fl) == Has(fl, {Ltime, Lmicroseconds})

ClockField(t, fl) ==
  itoa(t.hour, 2) \o <<":">> \o itoa(t.min, 2) \o <<":">> \o itoa(t.sec, 2)
    \o (IF Has(fl, {Lmicroseconds})
        THEN <<".">> \o itoa(t.ns \div 1000, 6) ELSE <<>>)
    \o <<" ">>

TimeFields(tm, fl) ==
  IF Has(fl, {Ldate, Ltime, Lmicroseconds})
  THEN LET t == IF Has(fl, {LUTC}) THEN tm.utc ELSE tm.loc
       IN (IF Has(fl, {Ldate}) THEN DateField(t) ELSE <<>>)
            \o (IF EmitsClock(fl) THEN ClockField(t, fl) ELSE <<>>)
  ELSE <<>>

FileField(fl, f, line) ==
  IF Has(fl, {Lshortfile, Llongfile})
  THEN (IF Has(fl, {Lshortfile}) THEN Short(f) ELSE f)
         \o <<":">> \o itoa(line, -1) \o <<":", " ">>
  ELSE <<>>

\* The bytes formatHeader appends to buf.
formatHeader(fl, l, tm, f, line) ==
  levelStringMap[l] \o TimeFields(tm, fl) \o FileField(fl, f, line)

\* ---- the line logging() assembles ----------------------------------------
\* A line that gets its newline whatever the message ends with.
EndsLineAlways(s) == TRUE

\* len(s) == 0 || s[len(s)-1] != '\n'
NeedsNewline(s) == Len(s) = 0 \/ s[Len(s)] # NL

\* buf after formatHeader, append(buf, s...) and the conditional newline.
logLine(hdr, s) == hdr \o s \o (IF NeedsNewline(s) THEN <<NL>> ELSE <<>>)

\* Number of newline bytes a sequence ends with.
RECURSIVE TrailingNL(_)
TrailingNL(b) ==
  IF b = <<>> \/ b[Len(b)] # NL THEN 0
  ELSE 1 + TrailingNL(SubSeq(b, 1, Len(b) - 1))

\* ---- the inputs of the calls ----------------------------------------------
Clock(y, mo, d, h, mi, sec, ns) ==
  [year |-> y, month |-> mo, day |-> d, hour |-> h, min |-> mi, sec |-> sec,
   ns |-> ns]

\* time.Now(): the local reading and what t.UTC() turns it into.
Times ==
  { [loc |-> Clock(2026, 11, 5, 9, 7, 3, 42999),
     utc |-> Clock(2026, 11, 5, 0, 7, 3, 42999)],
    [loc |-> Clock(1, 1, 1, 0, 0, 0, 0),
     utc |-> Clock(1, 1, 1, 0, 0, 0, 0)],
    [loc |-> Clock(9999, 12, 31, 23, 59, 59, 999999999),
     utc |-> Clock(9999, 12, 31, 14, 59, 59, 999999999)] }

\* runtime.Caller(2): a file path and a line, "unknown" and 0 on failure.
Files == { <<"m">>, <<"d", "/", "m">>, <<"/", "m">> }
CallerLines == {0, 7, 1042}

RECURSIVE SeqsUpTo(_, _)
SeqsUpTo(S, k) ==
  IF k = 0 THEN {<<>>}
  ELSE LET R == SeqsUpTo(S, k - 1)
       IN R \cup {Append(r, c) : r \in {q \in R : Len(q) = k - 1}, c \in S}

\* fmt.Sprintf(format, v...): the rendered message.
Messages == SeqsUpTo({"a", NL}, MaxLen)

NewLoggerArgs ==
  [op : {"NewLogger"}, open : BOOLEAN, level : Levels, size : 0..MaxCap,
   flags : [blocking : BOOLEAN, file : BOOLEAN]]

ItoaArgs == [op : {"itoa"}, i : 0..MaxI, wid : (-1)..MaxWid]

FormatHeaderArgs ==
  [op : {"formatHeader"}, flags : SUBSET HeaderFlags, level : Levels,
   t : Times, file : Files, line : CallerLines]

LogLineArgs ==
  [op : {"logging"}, flags : {{}, {Ldate, Ltime, Lmicroseconds}},
   t : Times, s : Messages]

\* ---- NewLogger, from its call ---------------------------------------------
\* os.OpenFile: the file, or an error.
OpenFile(ok) == [opened |-> ok, err |-> ~ok]

\* A constructor that goes on whatever OpenFile returned.
FailsNever(o) == FALSE

\* if err != nil { ...; return nil, errors.New("file creation fail") }
FailsOnErr(o) == o.err

\* Before the call there is no logger: no channel, no worker, no mutex held.
NoLogger ==
  /\ level = Trace
  /\ flags = [blocking |-> TRUE, file |-> FALSE]
  /\ bufferSize = 0
  /\ ch = <<>>
  /\ lock = NoOne
  /\ wg = 0
  /\ server = "none"

Built(l, e, o, c) ==
  [op |-> "NewLogger", logger |-> l, err |-> e, opens |-> o, chans |-> c]

CallNewLogger ==
  /\ arg.op = "NewLogger"
  /\ res = NoCall
  /\ IF FailsOnErr(OpenFile(arg.open))
     THEN /\ res' = Built(FALSE, TRUE, 1, 0)
          /\ UNCHANGED <<level, flags, bufferSize, ch, lock, wg, server>>
     ELSE LET b == BasicLogger(arg.level, arg.size, arg.flags) IN
          /\ res' = Built(TRUE, FALSE, 1, 1)
          /\ level' = b.level
          /\ flags' = b.flags
          /\ bufferSize' = b.bufferSize
          /\ ch' = b.ch
          /\ lock' = b.lock
          /\ wg' = b.wg
          /\ server' = b.server
  /\ UNCHANGED <<wmsg, sink, pc, now, file, n, en, ops, first, closed,
                 placed, arg>>

Returned(out) == [op |-> arg.op, out |-> out]

CallItoa ==
  /\ arg.op = "itoa"
  /\ res = NoCall
  /\ res' = Returned(itoa(arg.i, arg.wid))
  /\ UNCHANGED <<level, flags, bufferSize, ch, lock, wg, server, wmsg, sink,
                 pc, now, file, n, en, ops, first, closed, placed, arg>>

CallFormatHeader ==
  /\ arg.op = "formatHeader"
  /\ res = NoCall
  /\ res' = Returned(formatHeader(arg.flags, arg.level, arg.t, arg.file,
                                  arg.line))
  /\ UNCHANGED <<level, flags, bufferSize, ch, lock, wg, server, wmsg, sink,
                 pc, now, file, n, en, ops, first, closed, placed, arg>>

\* logging() from Sprintf to the finished buf, at level Info.
CallLogLine ==
  /\ arg.op = "logging"
  /\ res = NoCall
  /\ res' = Returned(logLine(formatHeader(arg.flags, Info, arg.t, <<>>, 0),
                             arg.s))
  /\ UNCHANGED <<level, flags, bufferSize, ch, lock, wg, server, wmsg, sink,
                 pc, now, file, n, en, ops, first, closed, placed, arg>>

InitCalls ==
  /\ arg \in NewLoggerArgs \cup ItoaArgs \cup FormatHeaderArgs \cup LogLineArgs
  /\ res = NoCall
  /\ NoLogger
  /\ wmsg = NoMsg
  /\ sink = <<>>
  /\ pc = [t \in Threads |-> "idle"]
  /\ now = [t \in Threads |-> FALSE]
  /\ file = [t \in Threads |-> FALSE]
  /\ n = [t \in Threads |-> 0]
  /\ en = [t \in Threads |-> 0]
  /\ closed = FALSE
  /\ ops = 0
  /\ first = [who |-> NoOne, snap |-> {}, ret |-> FALSE, more |-> FALSE]
  /\ placed = <<>>

NextCalls ==
  \/ CallNewLogger
  \/ CallItoa
  \/ CallFormatHeader
  \/ CallLogLine

SpecCalls == InitCalls /\ [][NextCalls]_vars

\* ---- C11: construction failure -------------------------------------------
\* C11: when the file cannot be opened, NewLogger returns an error and a nil
\* logger after its single open attempt; it makes no channel, starts no
\* worker and counts nothing on the WaitGroup.
ConstructionFailure ==
  (res.op = "NewLogger" /\ ~arg.open) =>
     /\ res.err
     /\ ~res.logger
     /\ res.opens = 1
     /\ res.chans = 0
     /\ NoLogger

ConstructionFailureWitness ==
  /\ res.op = "NewLogger"
  /\ ~arg.open
  /\ res.err
  /\ arg.size > 0
  /\ ~arg.flags.blocking

\* ---- C12: trailing newline -------------------------------------------------
\* C12, as stated: every assembled line ends with exactly one newline,
\* whatever the rendered message ends with.
ExactlyOneNewline ==
  res.op = "logging" => TrailingNL(res.out) = 1

\* C12, amended: the line is the header, the message, and one newline
\* appended exactly when the message is empty or does not end with one; so
\* it ends with one newline when the message ends with at most one, and with
\* the message's own newlines when the message ends with several.
TrailingNewline ==
  res.op = "logging" =>
    LET hdr == formatHeader(arg.flags, Info, arg.t, <<>>, 0)
        k == TrailingNL(arg.s)
    IN /\ res.out \in {hdr \o arg.s, hdr \o arg.s \o <<NL>>}
       /\ TrailingNL(res.out) = IF k <= 1 THEN 1 ELSE k

TrailingNewlineWitness ==
  /\ res.op = "logging"
  /\ Len(arg.s) = MaxLen
  /\ arg.s[1] # NL
  /\ TrailingNL(arg.s) = 2
  /\ TrailingNL(res.out) = 2

\* ---- C13: the terminate command is the last one processed ------------------
\* The commands the worker has taken from the channel, in the order taken:
\* the lines it wrote, the line it is writing, the terminate command.
Recvd ==
  [i \in 1..Len(sink) |-> logMessage(write, sink[i].buf)]
    \o (IF server = "write" THEN <<wmsg>> ELSE <<>>)
    \o (IF server = "done" THEN <<logMessage(exit, <<>>)>> ELSE <<>>)

IsPrefix(a, b) == Len(a) <= Len(b) /\ a = SubSeq(b, 1, Len(a))

\* What the worker took is what was sent, in send order, up to the first
\* terminate command and no further.
TakenInOrder ==
  Async =>
    /\ placed = Recvd \o ch
    /\ \A i \in 1..Len(Recvd) : Recvd[i].cmd = exit => i = Len(Recvd)
    /\ server = "done" =>
         \A i \in 1..(Len(Recvd) - 1) :
           placed[i].cmd = write /\ sink[i].buf = placed[i].buf

\* Taking the terminate command writes nothing, and after it the worker takes
\* nothing more from the channel.
TerminateStep ==
  /\ (server # "done" /\ server' = "done") => sink' = sink
  /\ server = "done" =>
       /\ server' = "done"
       /\ sink' = sink
       /\ IsPrefix(ch, ch')

\* C13: the worker processes every command sent before the first terminate
\* command, in send order, then the terminate command without a write, and
\* never takes a command sent after it.
TerminateIsLast == []TakenInOrder /\ [][Async => TerminateStep]_vars

TerminateIsLastWitness ==
  /\ Async
  /\ server = "done"
  /\ Len(sink) >= 1
  /\ \E i \in 1..Len(ch) : ch[i].cmd = write

\* ---- C14: the threshold is guarded -------------------------------------------
\* The one guard a BasicLogger has is its mutex; level is a plain int field.
HoldsGuard(t) == lock = t

\* The steps of thread t that read or write BasicLogger.level: the gate at
\* the head of logging() and the store of SetLogLevel.
AccessesLevel(t) ==
  \/ \E l \in Levels : Logging(t, l)
  \/ \E l \in Levels : SetLogLevel(t, l)

\* Thread t stores the threshold in this step while another thread, which
\* holds no guard either, is at a read or a write of it.
RacingStore(t) ==
  /\ \E l \in Levels : SetLogLevel(t, l)
  /\ ~HoldsGuard(t)
  /\ \E u \in Threads \ {t} : ~HoldsGuard(u) /\ ENABLED AccessesLevel(u)

\* C14, as stated: every read and every write of the threshold is made under
\* a guard, so no thread writes it while another thread reads or writes it
\* without holding that guard.
GuardedThreshold == [][\A t \in Threads : ~RacingStore(t)]_vars

\* ---- C15: a second Close() -----------------------------------------------------
\* No goroutine will take from the channel again: the worker has exited, or
\* was never started.
NoReceiver == server \in {"none", "done"}

\* Thread t is in a channel send that can never complete: there is no room,
\* and nothing will ever make room.
SendStuck(t) ==
  /\ \/ pc[t] = "csend"
     \/ pc[t] = "emit" /\ UsesChannel
  /\ ~CanSend
  /\ NoReceiver

\* C15, as stated: a Close() called again by the thread whose first Close()
\* has returned does not block for ever, whatever the channel capacity.
DoubleCloseReturns ==
  \A t \in Threads :
    (first.ret /\ first.who = t /\ pc[t] = "csend") => ~SendStuck(t)

\* ---- C16: zero padding ---------------------------------------------------------
\* Number of decimal digits of i >= 0.
RECURSIVE NumDigits(_)
NumDigits(i) == IF i < 10 THEN 1 ELSE 1 + NumDigits(i \div 10)

AllDigits(b) == \A k \in 1..Len(b) : IsDigit(b[k])

\* b is the decimal of i in exactly w digits, zeros in front.
Padded(b, i, w) == Len(b) = w /\ AllDigits(b) /\ Value(b) = i

\* itoa writes i in exactly wid digits when 0 <= i < 10^wid, and in just the
\* digits of i when wid is -1.
ItoaPads ==
  res.op = "itoa" =>
    /\ AllDigits(res.out)
    /\ Value(res.out) = arg.i
    /\ (arg.wid >= 1 /\ arg.i < Pow10(arg.wid)) => Len(res.out) = arg.wid
    /\ arg.wid = -1 => Len(res.out) = NumDigits(arg.i)

\* With the date, time and microseconds flags the bytes after the level tag
\* are YYYY/MM/DD HH:MM:SS.dddddd and a space.
HeaderPadded ==
  (res.op = "formatHeader" /\ {Ldate, Ltime, Lmicroseconds} \subseteq arg.flags)
  =>
    LET t == IF LUTC \in arg.flags THEN arg.t.utc ELSE arg.t.loc
        g == Len(levelStringMap[arg.level])
        h == SubSeq(res.out, g + 1, g + 27)
    IN /\ Len(res.out) >= g + 27
       /\ Padded(SubSeq(h, 1, 4), t.year, 4)
       /\ h[5] = "/"
       /\ Padded(SubSeq(h, 6, 7), t.month, 2)
       /\ h[8] = "/"
       /\ Padded(SubSeq(h, 9, 10), t.day, 2)
       /\ h[11] = " "
       /\ Padded(SubSeq(h, 12, 13), t.hour, 2)
       /\ h[14] = ":"
       /\ Padded(SubSeq(h, 15, 16), t.min, 2)
       /\ h[17] = ":"
       /\ Padded(SubSeq(h, 18, 19), t.sec, 2)
       /\ h[20] = "."
       /\ Padded(SubSeq(h, 21, 26), t.ns \div 1000, 6)
       /\ h[27] = " "

\* With a file flag the header ends with ':', the line number in just its
\* own digits, ':' and a space.
LineNotPadded ==
  (res.op = "formatHeader" /\ Has(arg.flags, {Lshortfile, Llongfile})) =>
    LET k == NumDigits(arg.line)
        e == Len(res.out)
    IN /\ e >= k + 3
       /\ res.out[e - k - 2] = ":"
       /\ Padded(SubSeq(res.out, e - k - 1, e - 2), arg.line, k)
       /\ SubSeq(res.out, e - 1, e) = <<":", " ">>

\* C16: itoa(i, wid) pads to exactly wid digits for 0 <= i < 10^wid and does
\* not pad for wid = -1; so the full header is YYYY/MM/DD HH:MM:SS.dddddd and
\* the line number is never zero-padded.
ZeroPadding == ItoaPads /\ HeaderPadded /\ LineNotPadded

ZeroPaddingWitness ==
  /\ res.op = "formatHeader"
  /\ arg.flags = {Ldate, Ltime, Lmicroseconds, Lshortfile}
  /\ arg.level = Info
  /\ arg.t.loc.year = 2026
  /\ arg.file = <<"d", "/", "m">>
  /\ arg.line = 1042
  /\ res.out = levelStringMap[Info]
                 \o <<"2", "0", "2", "6", "/", "1", "1", "/", "0", "5", " ">>
                 \o <<"0", "9", ":", "0", "7", ":", "0", "3", ".">>
                 \o <<"0", "0", "0", "0", "4", "2", " ">>
                 \o <<"m", ":", "1", "0", "4", "2", ":", " ">>

\* ---- C17: which flag emits which field -----------------------------------------
\* Whether the bytes of out after position o read as the named field.
DigitsAt(out, o, k) ==
  Len(out) >= o + k /\ AllDigits(SubSeq(out, o + 1, o + k))

DateAt(out, o) ==
  /\ Len(out) >= o + 11
  /\ DigitsAt(out, o, 4)
  /\ out[o + 5] = "/"
  /\ DigitsAt(out, o + 5, 2)
  /\ out[o + 8] = "/"
  /\ DigitsAt(out, o + 8, 2)
  /\ out[o + 11] = " "

ClockAt(out, o) ==
  /\ Len(out) >= o + 9
  /\ DigitsAt(out, o, 2)
  /\ out[o + 3] = ":"
  /\ DigitsAt(out, o + 3, 2)
  /\ out[o + 6] = ":"
  /\ DigitsAt(out, o + 6, 2)
  /\ out[o + 9] \in {" ", "."}

MicrosAt(out, o) ==
  /\ Len(out) >= o + 7
  /\ out[o + 1] = "."
  /\ DigitsAt(out, o + 1, 6)

\* The fields found in the header the call returned, read off its bytes.
TagLen == Len(levelStringMap[arg.level])
HasDate == DateAt(res.out, TagLen)
ClockFrom == IF HasDate THEN TagLen + 11 ELSE TagLen
HasClock == ClockAt(res.out, ClockFrom)
HasMicros == HasClock /\ MicrosAt(res.out, ClockFrom + 8)

\* C17, as stated: the date field is emitted iff the date flag is set, the
\* HH:MM:SS field iff the time flag is set, and the microseconds flag only
\* adds .dddddd to a time field the time flag emitted.
FlagsAsStated ==
  res.op = "formatHeader" =>
    /\ HasDate <=> Ldate \in arg.flags
    /\ HasClock <=> Ltime \in arg.flags
    /\ HasMicros <=> (Ltime \in arg.flags /\ Lmicroseconds \in arg.flags)

\* C17, amended: the date field is emitted iff the date flag is set, the
\* HH:MM:SS field iff the time flag or the microseconds flag is set, and the
\* .dddddd suffix iff the microseconds flag is set.
FlagsToFields ==
  res.op = "formatHeader" =>
    /\ HasDate <=> Ldate \in arg.flags
    /\ HasClock <=> (Ltime \in arg.flags \/ Lmicroseconds \in arg.flags)
    /\ HasMicros <=> Lmicroseconds \in arg.flags

FlagsToFieldsWitness ==
  /\ res.op = "formatHeader"
  /\ arg.flags = {Lmicroseconds}
  /\ HasClock
  /\ HasMicros
  /\ ~HasDate

\* ==== liveness ===================================================================
\* The Go scheduler runs every goroutine that can run: the worker receives
\* and finishes its writes, a caller blocked on the mutex, on the channel or
\* on the WaitGroup goes on once it can, and a Write on the sink completes.
\* Nothing obliges a thread to issue a new call.
Fairness ==
  /\ WF_vars(ServerRecv)
  /\ WF_vars(\E ok \in BOOLEAN : ServerWrite(ok))
  /\ \A t \in Threads :
       /\ WF_vars(Lock(t))
       /\ WF_vars(Relock(t))
       /\ WF_vars(Send(t))
       /\ WF_vars(CloseSend(t))
       /\ WF_vars(CloseWait(t))

\* The asynchronous logger: constructed without Lblocking, its callers never
\* write to the sink themselves.
InitAsync == Init /\ Async

NextAsync ==
  \/ ServerRecv
  \/ \E ok \in BOOLEAN : ServerWrite(ok)
  \/ \E t \in Threads, l \in Levels : Logging(t, l)
  \/ \E t \in Threads : Lock(t)
  \/ \E t \in Threads : Relock(t)
  \/ \E t \in Threads : Send(t)
  \/ \E t \in Threads, l \in Levels : SetLogLevel(t, l)
  \/ \E t \in Threads : CloseCall(t)
  \/ \E t \in Threads : CloseSend(t)
  \/ \E t \in Threads : CloseWait(t)

LiveSpec == InitAsync /\ [][NextAsync]_vars /\ Fairness

\* ---- C18: Close() returns --------------------------------------------------------
\* Exactly one Close() has been called so far.
SingleClose == first.who # NoOne /\ ~first.more

\* C18: on an asynchronous logger a single Close() call eventually returns,
\* whatever the capacity and whatever the producers do beside it.
CloseReturns ==
  (Async /\ SingleClose) ~> (first.ret \/ first.more)

CloseReturnsWitness ==
  /\ Async
  /\ SingleClose
  /\ first.ret
  /\ Len(sink) >= 1
  /\ \E u \in Threads : SendStuck(u) /\ lock = u

\* ---- C19: logging calls return while the logger is active ------------------------
InLogging(t) == pc[t] \in {"lock", "relock", "emit"}

NoClose == first.who = NoOne

\* C19: on an asynchronous logger on which Close() has not been called, every
\* logging call that passed the gate eventually returns with the mutex
\* released.
LoggingReturns ==
  \A t \in Threads :
    (Async /\ NoClose /\ InLogging(t)) ~>
      ((pc[t] = "idle" /\ lock # t) \/ ~NoClose)

LoggingReturnsWitness ==
  /\ Async
  /\ NoClose
  /\ bufferSize = 0
  /\ \A t \in Threads : en[t] >= 1 /\ pc[t] = "idle"
  /\ lock = NoOne
  /\ Len(sink) >= 2

\* ---- C20: logging after Close() has returned ---------------------------------------
\* C20, as stated: a logging call that passes the gate after Close() has
\* returned on an asynchronous logger still returns: the thread whose own
\* Close() has returned never sits for ever in the channel send of a later
\* logging call, the mutex in its hand.
LateLoggingReturns ==
  \A t \in Threads :
    (Async /\ first.ret /\ first.who = t /\ pc[t] = "emit") => ~SendStuck(t)

====
